---- MODULE Spec2Model ----
(***************************************************************************)
(* Model of figshare_dataset.py: the Orchestrator (main), the Per-File     *)
(* Pipeline (download_to_blob) run by a multiprocessing Pool, the          *)
(* Existence Checker (blob_exists) and the Downloader (download_file).     *)
(*                                                                         *)
(* Strings are sequences of one-character strings, so that slicing,        *)
(* find('.') and name_starts_with are computed as the code computes them.  *)
(***************************************************************************)
EXTENDS Integers, Sequences, FiniteSets, TLC

\* ------------------------------------------------------------------ bounds
MaxRuns == 2          \* Orchestrator runs against the same container
MaxFiles == 2         \* regular files in the largest archive

\* ------------------------------------------------------- program constants
max_attempts == 1000
retry_delay == 180
num_processes == 4

\* BASE_BLOB_NAME, "real-colon-dataset", as one path component
BASE_BLOB_NAME == <<"R">>

\* ---------------------------------------------------------------- strings
IsPrefix(p, s) == Len(p) <= Len(s) /\ SubSeq(s, 1, Len(p)) = p

\* str.find('.'): index (0-based) of the first '.', -1 when there is none
RECURSIVE FindFrom(_, _)
FindFrom(s, k) ==
    IF k > Len(s) THEN -1
    ELSE IF s[k] = "." THEN k - 1
    ELSE FindFrom(s, k + 1)

FindDot(s) == FindFrom(s, 1)

\* s[:n] of Python, n possibly negative
SliceTo(s, n) ==
    LET e == IF n < 0 THEN Len(s) + n ELSE n
        m == IF e < 0 THEN 0 ELSE IF e > Len(s) THEN Len(s) ELSE e
    IN SubSeq(s, 1, m)

\* os.path.join(a, b) for a relative b
PathJoin(a, b) == a \o <<"/">> \o b

\* ------------------------------------------------- the remote environment
\* Catalog entry names (file_info['name']) and what their archives hold.
NameA == <<"a", ".", "t">>
NameB == <<"a", "b", ".", "t">>
NameC == <<"c", ".", "t">>
NameD == <<"d", ".", "t">>
NameE == <<"e", ".", "t">>
NameF == <<"f", ".", "t">>

Names == {NameA, NameB, NameC, NameD, NameE, NameF}

\* top-level directory of the archive's members: the archives of c.t and d.t
\* both hold a directory x
TopDir(name) ==
    IF name = NameA THEN <<"a">>
    ELSE IF name = NameB THEN <<"a", "b">>
    ELSE IF name = NameE THEN <<"e">>
    ELSE IF name = NameF THEN <<"f">>
    ELSE <<"x">>

\* number of regular files in the archive
NFiles(name) == IF name = NameA THEN MaxFiles ELSE 1

FileIds == <<"1", "2", "3", "4">>

\* relative paths of the regular files the archive extracts to
Members(name) == { PathJoin(TopDir(name), <<FileIds[k]>>) : k \in 1..NFiles(name) }

\* listings the metadata endpoint may return (article_data['files'])
Catalogs == { <<>>, <<NameA>>, <<NameB, NameA>>, <<NameA, NameC>>, <<NameC, NameB, NameA>> }

\* what can fail around a pipeline: the credential or the client (lines
\* 151-162), the download to exhaustion (line 168), tarfile on a complete
\* archive (lines 174-175), the transport of upload_blob (line 188)
Faults == {"credential", "download", "tar", "upload"}

\* a listing with more entries than the pool has worker processes
WideCatalog == <<NameB, NameC, NameD, NameE, NameF>>

VARIABLES
    \* ---- remote container, kept across runs
    container,      \* set of blob names
    \* ---- Orchestrator (main)
    run,            \* number of the current run
    mpc,            \* position of main
    article,        \* article_data['files'], names only
    idx,            \* position of the loop of line 225
    download_tasks, \* sequence of file names queued
    skipped,        \* names logged "already uploaded. Skipping"
    present,        \* names with a blob under their prefix when checked
    results,        \* the local 'results' of main: [bound, val]
    summary,        \* summary lines emitted, <<file, n_blobs, level>>
    abort,          \* why main ended with an exception, or "none"
    \* ---- worker pool, one entry per task
    tpc,            \* position of the task's download_to_blob
    scratch,        \* regular files in the task's temporary directory
    archive,        \* state of the downloaded archive file
    uploaded,       \* blob names this invocation has written
    n_blobs_uploaded,
    ret,            \* return value: "none", -1 or a count
    failed,         \* phase whose exception ended the pipeline
    pool,           \* worker processes of the Pool, 0 when none was created
    tmpdir,         \* the task's TemporaryDirectory: "none", "exists", "removed"
    dl,             \* what download_file returned to the task
    attempted,      \* blob names the task has called upload_blob with
    finish_order,   \* task indices in the order their pipelines ended
    \* ---- download_file
    dpc,            \* position of download_file
    attempt,        \* the local 'attempt'
    dfile,          \* the file at local_filename: [exists, bytes]
    response,       \* chunks the current response delivers when not cut
    wpos,           \* chunks of the response consumed by the loop of line 91
    slept,          \* seconds spent in time.sleep
    failures,       \* attempts that ended in the except clause
    tries,          \* attempts started
    stale,          \* bytes the latest failed attempt left in the file
    dret,           \* return value: "none", "path" or "None"
    lastErr,        \* message kind of the exception being handled
    \* ---- the metadata endpoint
    endpoint,       \* listings the endpoint may answer with
    faults,         \* failures the surroundings of a pipeline may produce
    \* ---- extract_file
    epc,            \* position of extract_file
    file_path,      \* its argument file_path
    ddirs,          \* names of the directories in download_dir
    dnew,           \* directories an extraction has written into
    afile           \* whether the archive file is in download_dir

ovars == <<run, mpc, article, idx, download_tasks, skipped, present, results,
           summary, abort>>
tvars == <<tpc, scratch, archive, uploaded, n_blobs_uploaded, ret, failed,
           pool, tmpdir, dl, attempted, finish_order>>
dvars == <<dpc, attempt, dfile, response, wpos, slept, failures, tries, stale,
           dret, lastErr>>
evars == <<epc, file_path, ddirs, dnew, afile>>
xvars == <<endpoint, faults, evars>>
vars == <<container, ovars, tvars, dvars, xvars>>

\* ------------------------------------------------------ Existence Checker
\* the prefix blob_exists lists: {base}/{name cut at its first '.'}
BlobPrefix(local_filename, base_blob_name) ==
    PathJoin(base_blob_name, SliceTo(local_filename, FindDot(local_filename)))

\* container_client.list_blob_names(name_starts_with=p)
ListBlobNames(blobs, p) == { b \in blobs : IsPrefix(p, b) }

blob_exists_never(local_filename, blobs, base_blob_name) == FALSE

blob_exists(local_filename, blobs, base_blob_name) ==
    ListBlobNames(blobs, BlobPrefix(local_filename, base_blob_name)) # {}

\* -------------------------------------------------------------- helpers
Min(a, b) == IF a < b THEN a ELSE b

Tasks == 1..Len(download_tasks)

NoTasks == <<>>

\* the local variable 'results' of main before line 246 has assigned it
Unbound == [bound |-> FALSE, val |-> <<>>]

PoolSizeUncapped(n_tasks) == n_tasks

\* lines 238-241: num_processes = min(num_processes, len(download_tasks))
PoolSize(n_tasks) == Min(num_processes, n_tasks)

\* results listed in the order the tasks ended
GatherInCompletionOrder(rets, order) ==
    [k \in 1..Len(order) |-> rets[order[k]]]

\* line 246: starmap returns the results in the order of the task list
GatherResults(rets, order) == [i \in DOMAIN rets |-> rets[i]]

\* lines 248-253: the level of the summary line of one result
SummaryLevel(n_blobs) == IF n_blobs = -1 THEN "error" ELSE "info"

ReturnCountOnException(n) == n

\* line 200: what download_to_blob returns once its try block has raised
ReturnOnException(n) == -1

OsRemoveNothing(files, path) == files

\* line 180: os.remove(local_file_path)
OsRemove(files, path) == files \ {path}

\* lines 80, 98, 112-113: what download_file returns after nfail failed attempts
DownloadReturns(nfail) == IF nfail < max_attempts THEN "path" ELSE "None"

\* line 186: blob name of a file of the scratch directory
BlobPath(base_blob_name, rel_path) == PathJoin(base_blob_name, rel_path)

\* ----------------------------------------------- download_file's inputs
\* responses of the server, each a sequence of chunks of bytes; iter_content
\* may yield an empty chunk
Payloads == { << <<1>>, <<2>> >>, << <<3>>, <<>>, <<4, 5>> >> }

NoFile == [exists |-> FALSE, bytes |-> <<>>]

\* what may be at local_filename when download_file is called
InitialFiles == { NoFile, [exists |-> TRUE, bytes |-> <<9>>] }

RECURSIVE Flatten(_)
Flatten(chunks) ==
    IF chunks = <<>> THEN <<>> ELSE Head(chunks) \o Flatten(Tail(chunks))

ErrorKinds == {"IncompleteRead", "other"}

\* ------------------------------------------------ extract_file's inputs
TarGz == <<".", "t", "a", "r", ".", "g", "z">>

ArchiveS == <<"s">> \o TarGz
ArchiveDa == <<"d", "a">> \o TarGz
ArchiveV1 == <<"v", ".", "1">> \o TarGz
ArchiveZip == <<"s", ".", "z", "i", "p">>

\* values of the argument file_path
FilePaths == {ArchiveS, ArchiveDa, ArchiveV1, ArchiveZip}

\* directory names download_dir may hold before the call
DirNames == { <<"s">>, <<"d", "a">>, <<"d">>, <<"v", ".", "1">>, <<"v">> }

\* the directory the archive extracts to: its name without '.tar.gz'
ProducedDir(path) == SubSeq(path, 1, Len(path) - Len(TarGz))

\* -------------------------------------------------------------------- Init
InitExtractor ==
    /\ epc = "idle"
    /\ file_path = ArchiveS
    /\ ddirs = {}
    /\ dnew = {}
    /\ afile = TRUE

InitDownloader ==
    /\ dpc = "idle" /\ attempt = 0 /\ response = <<>>
    /\ wpos = 0 /\ slept = 0 /\ failures = 0 /\ tries = 0 /\ stale = <<>>
    /\ dret = "none" /\ lastErr = "none"

InitRun ==
    /\ mpc = "start" /\ article = <<>> /\ idx = 1 /\ download_tasks = <<>>
    /\ skipped = {} /\ present = {} /\ results = Unbound /\ summary = <<>>
    /\ abort = "none"
    /\ tpc = NoTasks /\ scratch = NoTasks /\ archive = NoTasks
    /\ uploaded = NoTasks /\ n_blobs_uploaded = NoTasks /\ ret = NoTasks
    /\ failed = NoTasks /\ tmpdir = NoTasks /\ dl = NoTasks /\ pool = 0
    /\ attempted = NoTasks /\ finish_order = <<>>

Init ==
    /\ container = {}
    /\ run = 1
    /\ InitRun
    /\ InitDownloader
    /\ dfile = NoFile
    /\ endpoint = Catalogs
    /\ faults = Faults
    /\ InitExtractor

\* ------------------------------------------------------ Orchestrator: main
Raise(why) ==
    /\ mpc' = "aborted"
    /\ abort' = why

\* lines 204-218: environment, credential, client and container handle
MainSetup ==
    /\ mpc = "start"
    /\ \/ mpc' = "fetch" /\ abort' = abort
       \/ Raise("setup")
    /\ UNCHANGED <<container, run, article, idx, download_tasks, skipped, present,
                   results, summary, tvars, dvars, xvars>>

\* lines 220-222: requests.get, raise_for_status, json
FetchCatalog ==
    /\ mpc = "fetch"
    /\ \/ \E c \in endpoint : article' = c /\ mpc' = "check" /\ abort' = abort
       \/ Raise("catalog") /\ article' = article
    /\ UNCHANGED <<container, run, idx, download_tasks, skipped, present,
                   results, summary, tvars, dvars, xvars>>

ListingFailsReportedExisting(file_name) ==
    /\ skipped' = skipped \cup {file_name}
    /\ idx' = idx + 1
    /\ UNCHANGED <<download_tasks, present, mpc, abort>>

\* lines 66-67 and 230: the listing raises while blob_exists iterates it;
\* nothing in blob_exists or main catches the exception
ListingFails(file_name) ==
    /\ Raise("listing")
    /\ UNCHANGED <<download_tasks, skipped, present, idx>>

\* lines 225-235: one iteration of the loop over article_data['files']
CheckEntry ==
    /\ mpc = "check"
    /\ idx <= Len(article)
    /\ LET file_name == article[idx]
           existing_blob == blob_exists(file_name, container, BASE_BLOB_NAME)
       IN \/ /\ existing_blob
             /\ skipped' = skipped \cup {file_name}
             /\ download_tasks' = download_tasks
             /\ present' = present \cup
                   { n \in {file_name} :
                       ListBlobNames(container, BlobPrefix(n, BASE_BLOB_NAME)) # {} }
             /\ idx' = idx + 1
             /\ UNCHANGED <<mpc, abort>>
          \/ /\ ~existing_blob
             /\ download_tasks' = Append(download_tasks, file_name)
             /\ skipped' = skipped
             /\ present' = present \cup
                   { n \in {file_name} :
                       ListBlobNames(container, BlobPrefix(n, BASE_BLOB_NAME)) # {} }
             /\ idx' = idx + 1
             /\ UNCHANGED <<mpc, abort>>
          \/ ListingFails(file_name)
    /\ UNCHANGED <<container, run, article, results, summary, tvars, dvars, xvars>>

\* lines 238-246: pool size, and the Pool when it is not zero
CreatePool ==
    /\ mpc = "check"
    /\ idx > Len(article)
    /\ LET n == PoolSize(Len(download_tasks))
       IN IF n # 0
          THEN /\ pool' = n
               /\ mpc' = "pool"
               /\ tpc' = [i \in Tasks |-> "queued"]
               /\ scratch' = [i \in Tasks |-> {}]
               /\ archive' = [i \in Tasks |-> "none"]
               /\ uploaded' = [i \in Tasks |-> {}]
               /\ n_blobs_uploaded' = [i \in Tasks |-> 0]
               /\ ret' = [i \in Tasks |-> "none"]
               /\ failed' = [i \in Tasks |-> "none"]
               /\ tmpdir' = [i \in Tasks |-> "none"]
               /\ dl' = [i \in Tasks |-> "none"]
               /\ attempted' = [i \in Tasks |-> {}]
               /\ finish_order' = <<>>
          ELSE /\ mpc' = "summary"
               /\ UNCHANGED tvars
    /\ UNCHANGED <<container, run, article, idx, download_tasks, skipped, present,
                   results, summary, abort, dvars, xvars>>

\* ------------------------------------- Per-File Pipeline: download_to_blob
Running == { i \in Tasks : tpc[i] \in {"setup", "download", "extract", "upload"} }

Finished(i) == tpc[i] \in {"done", "raised"}

PipelineExceptKeepsDir(i, phase) ==
    /\ tpc' = [tpc EXCEPT ![i] = "done"]
    /\ ret' = [ret EXCEPT ![i] = -1]
    /\ failed' = [failed EXCEPT ![i] = phase]
    /\ UNCHANGED <<scratch, tmpdir>>
    /\ finish_order' = Append(finish_order, i)

\* lines 198-200 and the exit of the 'with' of line 165: the exception leaves
\* the TemporaryDirectory block, which removes the directory, and is caught
PipelineExcept(i, phase) ==
    /\ tpc' = [tpc EXCEPT ![i] = "done"]
    /\ ret' = [ret EXCEPT ![i] = ReturnOnException(n_blobs_uploaded[i])]
    /\ failed' = [failed EXCEPT ![i] = phase]
    /\ scratch' = [scratch EXCEPT ![i] = {}]
    /\ tmpdir' = [tmpdir EXCEPT ![i] = "removed"]
    /\ finish_order' = Append(finish_order, i)

\* Pool.starmap: a free worker process takes the next task of the list
TaskStart(i) ==
    /\ mpc = "pool"
    /\ tpc[i] = "queued"
    /\ \A j \in Tasks : j < i => tpc[j] # "queued"
    /\ Cardinality(Running) < pool
    /\ tpc' = [tpc EXCEPT ![i] = "setup"]
    /\ UNCHANGED <<container, ovars, dvars, xvars, scratch, archive, uploaded,
                   n_blobs_uploaded, ret, failed, pool, tmpdir, dl, attempted,
                   finish_order>>

\* lines 151-163: credential, service client, container handle; outside the try
PipelineSetup(i) ==
    /\ mpc = "pool"
    /\ tpc[i] = "setup"
    /\ \/ /\ tpc' = [tpc EXCEPT ![i] = "download"]
          /\ UNCHANGED <<failed, finish_order>>
       \/ \* an exception here leaves download_to_blob and reaches the pool
          /\ "credential" \in faults
          /\ tpc' = [tpc EXCEPT ![i] = "raised"]
          /\ failed' = [failed EXCEPT ![i] = "setup"]
          /\ finish_order' = Append(finish_order, i)
    /\ UNCHANGED <<container, ovars, dvars, xvars, scratch, archive, uploaded,
                   n_blobs_uploaded, ret, pool, tmpdir, dl, attempted>>

\* lines 165-172: the scratch directory and download_file, whose return value
\* is dropped; nfail is the number of attempts that failed
PipelineDownload(i) ==
    /\ mpc = "pool"
    /\ tpc[i] = "download"
    /\ \E nfail \in {0, 1, max_attempts} :
         LET r == DownloadReturns(nfail)
             file_name == download_tasks[i]
         IN /\ dl' = [dl EXCEPT ![i] = r]
            /\ r = "None" => "download" \in faults
            /\ \/ /\ r = "path"
                  /\ archive' = [archive EXCEPT ![i] = "complete"]
                  /\ scratch' = [scratch EXCEPT ![i] = {file_name}]
               \/ \* bytes of a failed attempt left at the destination
                  /\ r = "None"
                  /\ archive' = [archive EXCEPT ![i] = "partial"]
                  /\ scratch' = [scratch EXCEPT ![i] = {file_name}]
               \/ \* no attempt got as far as opening the destination
                  /\ r = "None"
                  /\ archive' = archive
                  /\ scratch' = scratch
    /\ tmpdir' = [tmpdir EXCEPT ![i] = "exists"]
    /\ tpc' = [tpc EXCEPT ![i] = "extract"]
    /\ UNCHANGED <<container, ovars, dvars, xvars, uploaded, n_blobs_uploaded, ret,
                   failed, pool, attempted, finish_order>>

\* lines 173-180: tarfile.open, extractall, os.remove of the archive
PipelineExtract(i) ==
    /\ mpc = "pool"
    /\ tpc[i] = "extract"
    /\ LET file_name == download_tasks[i]
       IN \/ /\ archive[i] = "complete"
             /\ scratch' = [scratch EXCEPT ![i] =
                              OsRemove(@ \cup Members(file_name), file_name)]
             /\ tpc' = [tpc EXCEPT ![i] = "upload"]
             /\ UNCHANGED <<ret, failed, tmpdir, finish_order>>
          \/ \* a cut archive whose end tarfile takes for the end of the
             \* archive: the members before the cut are extracted, no exception
             /\ archive[i] = "partial"
             /\ \E got \in SUBSET Members(file_name) :
                   scratch' = [scratch EXCEPT ![i] =
                                 OsRemove(@ \cup got, file_name)]
             /\ tpc' = [tpc EXCEPT ![i] = "upload"]
             /\ UNCHANGED <<ret, failed, tmpdir, finish_order>>
          \/ \* tarfile raises: no archive, a truncated one, or a failed write
             /\ archive[i] # "complete" \/ "tar" \in faults
             /\ PipelineExcept(i, "extract")
    /\ UNCHANGED <<container, ovars, dvars, xvars, archive, uploaded, n_blobs_uploaded,
                   pool, dl, attempted>>

\* lines 182-189: one file of the os.walk, uploaded without overwrite
PipelineUpload(i) ==
    /\ mpc = "pool"
    /\ tpc[i] = "upload"
    /\ \E rel_path \in scratch[i] :
         LET blob_path == BlobPath(BASE_BLOB_NAME, rel_path)
         IN /\ blob_path \notin uploaded[i]
            /\ attempted' = [attempted EXCEPT ![i] = @ \cup {blob_path}]
            /\ \/ /\ blob_path \notin container
                  /\ container' = container \cup {blob_path}
                  /\ uploaded' = [uploaded EXCEPT ![i] = @ \cup {blob_path}]
                  /\ n_blobs_uploaded' = [n_blobs_uploaded EXCEPT ![i] = @ + 1]
                  /\ UNCHANGED <<tpc, ret, failed, scratch, tmpdir, finish_order>>
               \/ \* upload_blob raises: the blob exists already, or the
                  \* transport fails
                  /\ blob_path \in container \/ "upload" \in faults
                  /\ PipelineExcept(i, "upload")
                  /\ UNCHANGED <<container, uploaded, n_blobs_uploaded>>
    /\ UNCHANGED <<ovars, dvars, xvars, archive, pool, dl>>

\* lines 190-201: the walk is over; the directory is removed, the count returned
PipelineReturn(i) ==
    /\ mpc = "pool"
    /\ tpc[i] = "upload"
    /\ \A rel_path \in scratch[i] :
          BlobPath(BASE_BLOB_NAME, rel_path) \in uploaded[i]
    /\ tpc' = [tpc EXCEPT ![i] = "done"]
    /\ ret' = [ret EXCEPT ![i] = n_blobs_uploaded[i]]
    /\ scratch' = [scratch EXCEPT ![i] = {}]
    /\ tmpdir' = [tmpdir EXCEPT ![i] = "removed"]
    /\ finish_order' = Append(finish_order, i)
    /\ UNCHANGED <<container, ovars, dvars, xvars, archive, uploaded, n_blobs_uploaded,
                   failed, pool, dl, attempted>>

\* ------------------------------------------- Orchestrator: after the pool
\* line 246: starmap returns once every task is over; it re-raises the
\* exception of a task that raised
PoolJoin ==
    /\ mpc = "pool"
    /\ \A i \in Tasks : Finished(i)
    /\ IF \E i \in Tasks : tpc[i] = "raised"
       THEN Raise("worker") /\ results' = results
       ELSE /\ results' = [bound |-> TRUE,
                             val |-> GatherResults(ret, finish_order)]
            /\ mpc' = "summary"
            /\ abort' = abort
    /\ UNCHANGED <<container, run, article, idx, download_tasks, skipped, present,
                   summary, tvars, dvars, xvars>>

\* lines 248-254: the summary; 'results' is unbound when no pool was created
Summarize ==
    /\ mpc = "summary"
    /\ IF ~results.bound
       THEN Raise("NameError") /\ summary' = summary
       ELSE /\ summary' = [i \in 1..Min(Len(download_tasks), Len(results.val)) |->
                             <<download_tasks[i], results.val[i],
                               SummaryLevel(results.val[i])>>]
            /\ mpc' = "done"
            /\ abort' = abort
    /\ UNCHANGED <<container, run, article, idx, download_tasks, skipped, present,
                   results, tvars, dvars, xvars>>

\* the program is started again against the same container
NextRun ==
    /\ mpc \in {"done", "aborted"}
    /\ run < MaxRuns
    /\ run' = run + 1
    /\ mpc' = "start" /\ article' = <<>> /\ idx' = 1 /\ download_tasks' = <<>>
    /\ skipped' = {} /\ present' = {} /\ results' = Unbound /\ summary' = <<>>
    /\ abort' = "none"
    /\ tpc' = NoTasks /\ scratch' = NoTasks /\ archive' = NoTasks
    /\ uploaded' = NoTasks /\ n_blobs_uploaded' = NoTasks /\ ret' = NoTasks
    /\ failed' = NoTasks /\ tmpdir' = NoTasks /\ dl' = NoTasks /\ pool' = 0
    /\ attempted' = NoTasks /\ finish_order' = <<>>
    /\ UNCHANGED <<container, dvars, xvars>>

Next ==
    \/ MainSetup
    \/ FetchCatalog
    \/ CheckEntry
    \/ CreatePool
    \/ \E i \in Tasks : TaskStart(i)
    \/ \E i \in Tasks : PipelineSetup(i)
    \/ \E i \in Tasks : PipelineDownload(i)
    \/ \E i \in Tasks : PipelineExtract(i)
    \/ \E i \in Tasks : PipelineUpload(i)
    \/ \E i \in Tasks : PipelineReturn(i)
    \/ PoolJoin
    \/ Summarize
    \/ NextRun

Spec == Init /\ [][Next]_vars

\* one execution of the program, from main's first line to its end
NextOneRun ==
    \/ MainSetup
    \/ FetchCatalog
    \/ CheckEntry
    \/ CreatePool
    \/ \E i \in Tasks : TaskStart(i)
    \/ \E i \in Tasks : PipelineSetup(i)
    \/ \E i \in Tasks : PipelineDownload(i)
    \/ \E i \in Tasks : PipelineExtract(i)
    \/ \E i \in Tasks : PipelineUpload(i)
    \/ \E i \in Tasks : PipelineReturn(i)
    \/ PoolJoin
    \/ Summarize

\* ------------------------------------------------ Downloader: download_file
LoopCondInclusive(a) == a <= max_attempts

\* line 80: the condition of the while loop
LoopCond(a) == a < max_attempts

OpenAppend(f) == [exists |-> TRUE, bytes |-> f.bytes]

\* line 90: open(local_filename, 'wb') truncates the file
OpenWB(f) == [exists |-> TRUE, bytes |-> <<>>]

\* lines 92-94: an empty chunk is not written
WriteChunk(f, chunk) ==
    IF chunk # <<>> THEN [f EXCEPT !.bytes = @ \o chunk] ELSE f

SleepOnIncompleteReadOnly(error_kind) ==
    IF error_kind = "IncompleteRead" THEN retry_delay ELSE 0

\* lines 103-110: the wait of either branch of the except clause
SleepFor(error_kind) ==
    IF error_kind = "IncompleteRead" THEN retry_delay ELSE retry_delay

\* an exception inside the try of line 81 reaches the except of line 101
DLFail(kind) ==
    /\ dpc' = "except"
    /\ lastErr' = kind
    /\ failures' = failures + 1

\* lines 72-78: the call
DLCall ==
    /\ dpc = "idle"
    /\ dpc' = "loop"
    /\ attempt' = 0
    /\ UNCHANGED <<container, ovars, tvars, xvars, dfile, response, wpos, slept,
                   failures, tries, stale, dret, lastErr>>

\* line 80 true: the next attempt starts
DLLoop ==
    /\ dpc = "loop"
    /\ LoopCond(attempt)
    /\ dpc' = "get"
    /\ tries' = tries + 1
    /\ UNCHANGED <<container, ovars, tvars, xvars, attempt, dfile, response, wpos, slept,
                   failures, stale, dret, lastErr>>

\* line 80 false, lines 112-113: the attempts are used up
DLGiveUp ==
    /\ dpc = "loop"
    /\ ~LoopCond(attempt)
    /\ dpc' = "returned"
    /\ dret' = "None"
    /\ UNCHANGED <<container, ovars, tvars, xvars, attempt, dfile, response, wpos, slept,
                   failures, tries, stale, lastErr>>

\* lines 83-87: requests.get and raise_for_status
DLGet ==
    /\ dpc = "get"
    /\ \/ /\ \E p \in Payloads : response' = p
          /\ dpc' = "open"
          /\ UNCHANGED <<lastErr, failures, stale>>
       \/ /\ \E k \in ErrorKinds : DLFail(k)
          /\ stale' = dfile.bytes
          /\ response' = response
    /\ UNCHANGED <<container, ovars, tvars, xvars, attempt, dfile, wpos, slept, tries, dret>>

\* line 90: open for writing
DLOpen ==
    /\ dpc = "open"
    /\ dfile' = OpenWB(dfile)
    /\ wpos' = 0
    /\ dpc' = "write"
    /\ UNCHANGED <<container, ovars, tvars, xvars, attempt, response, slept, failures,
                   tries, stale, dret, lastErr>>

\* lines 91-94: one chunk of iter_content, or the connection breaks
DLChunk ==
    /\ dpc = "write"
    /\ wpos < Len(response)
    /\ \/ /\ dfile' = WriteChunk(dfile, response[wpos + 1])
          /\ wpos' = wpos + 1
          /\ UNCHANGED <<dpc, lastErr, failures, stale>>
       \/ /\ \E k \in ErrorKinds : DLFail(k)
          /\ stale' = dfile.bytes
          /\ UNCHANGED <<dfile, wpos>>
    /\ UNCHANGED <<container, ovars, tvars, xvars, attempt, response, slept, tries, dret>>

\* lines 95-98: the response is exhausted; return local_filename
DLReturn ==
    /\ dpc = "write"
    /\ wpos = Len(response)
    /\ dpc' = "returned"
    /\ dret' = "path"
    /\ UNCHANGED <<container, ovars, tvars, xvars, attempt, dfile, response, wpos, slept,
                   failures, tries, stale, lastErr>>

\* lines 101-110: the except clause
DLExcept ==
    /\ dpc = "except"
    /\ slept' = slept + SleepFor(lastErr)
    /\ attempt' = attempt + 1
    /\ dpc' = "loop"
    /\ UNCHANGED <<container, ovars, tvars, xvars, dfile, response, wpos, failures, tries,
                   stale, dret, lastErr>>

NextDL ==
    \/ DLCall
    \/ DLLoop
    \/ DLGiveUp
    \/ DLGet
    \/ DLOpen
    \/ DLChunk
    \/ DLReturn
    \/ DLExcept

InitDL ==
    /\ container = {}
    /\ run = 1
    /\ InitRun
    /\ InitDownloader
    /\ dfile \in InitialFiles
    /\ endpoint = Catalogs
    /\ faults = Faults
    /\ InitExtractor

SpecDL == InitDL /\ [][NextDL]_vars

\* ------------------------------------------------- Extractor: extract_file
\* str.endswith
EndsWith(s, suffix) ==
    Len(suffix) <= Len(s) /\ SubSeq(s, Len(s) - Len(suffix) + 1, Len(s)) = suffix

\* the characters of a string
Chars(s) == { s[k] : k \in 1..Len(s) }

\* str.rstrip(chars): trailing characters that are in chars are removed
RECURSIVE RStrip(_, _)
RStrip(s, chars) ==
    IF s # <<>> /\ s[Len(s)] \in chars
    THEN RStrip(SubSeq(s, 1, Len(s) - 1), chars)
    ELSE s

\* line 122: file_path.rstrip('.tar.gz')
StripTarGz(s) == RStrip(s, Chars(TarGz))

\* index of the last occurrence of c in s, 0 when there is none
RECURSIVE LastIndex(_, _, _)
LastIndex(s, c, k) ==
    IF k = 0 THEN 0
    ELSE IF s[k] = c THEN k
    ELSE LastIndex(s, c, k - 1)

\* os.path.basename
Basename(s) == SubSeq(s, LastIndex(s, "/", Len(s)) + 1, Len(s))

\* number of leading dots of s
RECURSIVE LeadingDots(_, _)
LeadingDots(s, k) ==
    IF k <= Len(s) /\ s[k] = "." THEN LeadingDots(s, k + 1) ELSE k - 1

\* os.path.splitext(s)[0]: s up to its last dot, leading dots not counted
SplitExtRoot(s) ==
    LET d == LastIndex(s, ".", Len(s))
    IN IF d > LeadingDots(s, 1) + 1 THEN SubSeq(s, 1, d - 1) ELSE s

\* lines 122-123: the folder name extract_file looks for
ExtractedFolderName(path) == SplitExtRoot(Basename(StripTarGz(path)))

\* line 126: os.path.exists(os.path.join(download_dir, name)); an empty name
\* gives download_dir itself
PathExists(name, dirs) == name = <<>> \/ name \in dirs

ExtractorUnchanged == UNCHANGED <<container, ovars, tvars, dvars, endpoint, faults>>

\* line 117: the call
EXCall ==
    /\ epc = "idle"
    /\ epc' = "test"
    /\ UNCHANGED <<file_path, ddirs, dnew, afile>>
    /\ ExtractorUnchanged

\* lines 120-126: the suffix test and the test of the extracted folder
EXTest ==
    /\ epc = "test"
    /\ epc' = IF ~EndsWith(file_path, TarGz) THEN "returned"
              ELSE IF ~PathExists(ExtractedFolderName(file_path), ddirs)
                   THEN "extract"
                   ELSE "remove"
    /\ UNCHANGED <<file_path, ddirs, dnew, afile>>
    /\ ExtractorUnchanged

EXExtractRemovesOnFailure ==
    /\ epc = "extract"
    /\ \/ /\ afile
          /\ ddirs' = ddirs \cup {ProducedDir(file_path)}
          /\ dnew' = dnew \cup {ProducedDir(file_path)}
          /\ epc' = "remove"
          /\ afile' = afile
       \/ /\ epc' = "raised"
          /\ afile' = FALSE
          /\ UNCHANGED <<ddirs, dnew>>
    /\ UNCHANGED file_path
    /\ ExtractorUnchanged

\* lines 127-129: tarfile.open and extractall into download_dir
EXExtract ==
    /\ epc = "extract"
    /\ \/ /\ afile
          /\ ddirs' = ddirs \cup {ProducedDir(file_path)}
          /\ dnew' = dnew \cup {ProducedDir(file_path)}
          /\ epc' = "remove"
       \/ \* no such file, a damaged archive, a failed write: the exception
          \* leaves extract_file
          /\ epc' = "raised"
          /\ UNCHANGED <<ddirs, dnew>>
    /\ UNCHANGED <<file_path, afile>>
    /\ ExtractorUnchanged

\* lines 131-133: os.remove(file_comp_path)
EXRemove ==
    /\ epc = "remove"
    /\ IF afile
       THEN afile' = FALSE /\ epc' = "returned"
       ELSE afile' = afile /\ epc' = "raised"
    /\ UNCHANGED <<file_path, ddirs, dnew>>
    /\ ExtractorUnchanged

NextEX ==
    \/ EXCall
    \/ EXTest
    \/ EXExtract
    \/ EXRemove

InitEX ==
    /\ container = {}
    /\ run = 1
    /\ InitRun
    /\ InitDownloader
    /\ dfile = NoFile
    /\ endpoint = Catalogs
    /\ faults = Faults
    /\ epc = "idle"
    /\ file_path \in FilePaths
    /\ ddirs \in SUBSET DirNames
    /\ dnew = {}
    /\ afile \in BOOLEAN

SpecEX == InitEX /\ [][NextEX]_vars

\* ------------------- the pipeline and extract_file, each on its own archive
\* ------------------------------- one run over more entries than workers
\* failures of the pipelines in the run over the wide listing
PoolFaults == Faults \ {"download"}

InitPool ==
    /\ container = {}
    /\ run = 1
    /\ InitRun
    /\ InitDownloader
    /\ dfile = NoFile
    /\ endpoint = {WideCatalog}
    /\ faults = PoolFaults
    /\ InitExtractor

SpecPool == InitPool /\ [][NextOneRun]_vars

InitArch ==
    /\ container = {}
    /\ run = 1
    /\ InitRun
    /\ InitDownloader
    /\ dfile = NoFile
    /\ endpoint = Catalogs
    /\ faults = Faults
    /\ epc = "idle"
    /\ file_path \in {ArchiveS, ArchiveDa}
    /\ ddirs \in { {}, {ExtractedFolderName(file_path)} }
    /\ dnew = {}
    /\ afile = TRUE

NextArch ==
    \/ NextOneRun
    \/ NextEX

SpecArch == InitArch /\ [][NextArch]_vars

\* ================================================================ claims
\* blob names of the regular files of an entry's archive
OwnBlobs(name) == { BlobPath(BASE_BLOB_NAME, m) : m \in Members(name) }

Ended == mpc \in {"done", "aborted"}

\* C1: an entry with at least one blob under its prefix when it is checked is
\* never queued, so no pipeline task of the run is for it.
C1_PresentNeverQueued ==
    \A n \in present :
        /\ \A k \in 1..Len(download_tasks) : download_tasks[k] # n
        /\ n \in skipped

C1_Witness ==
    /\ mpc = "done"
    /\ present # {}
    /\ Len(download_tasks) > 0
    /\ \E i \in DOMAIN ret : ret[i] >= 1

\* C2: no exception leaves download_to_blob: every pipeline that is over has
\* returned a value, none has raised into the worker pool.
C2_NeverPropagates ==
    \A i \in DOMAIN tpc : tpc[i] # "raised"

\* C3: when the catalog is not empty and every entry is skipped, main creates
\* no pool, emits no summary line and ends normally, not in an exception.
C3_AllSkippedEndsNormally ==
    ( /\ Ended
      /\ abort \notin {"setup", "catalog", "listing"}
      /\ Len(article) > 0
      /\ download_tasks = <<>> )
    => (mpc = "done" /\ pool = 0 /\ summary = <<>>)

\* C4: once the catalog is fetched and there are pending files, the run ends
\* with every pipeline over and one summary line per pending file, whatever
\* the pipelines' failures.
C4_BatchNeverStopped ==
    (Ended /\ pool > 0)
    => /\ mpc = "done"
       /\ Len(summary) = Len(download_tasks)
       /\ \A i \in DOMAIN tpc : tpc[i] = "done"

\* C5: download_file never starts more than max_attempts attempts, returns
\* None only after exactly max_attempts failed attempts, returns None and not
\* the path when every attempt failed, and is never stuck before it returns.
C5_ExactlyMaxAttempts ==
    /\ tries <= max_attempts
    /\ dret = "None" => (tries = max_attempts /\ failures = max_attempts)
    /\ (dpc = "returned" /\ failures = tries) => dret = "None"
    /\ (dpc = "loop" /\ failures = max_attempts) => ~ENABLED DLLoop
    /\ dpc # "returned" => ENABLED NextDL

C5_Witness ==
    /\ dpc = "returned"
    /\ dret = "None"
    /\ tries = max_attempts
    /\ failures = max_attempts

C7_OneDelayPerFailure ==
    /\ failures = IF dpc = "except" THEN attempt + 1 ELSE attempt
    /\ slept = retry_delay * attempt

C7_Witness ==
    /\ dpc = "get"
    /\ lastErr = "other"
    /\ failures = 2
    /\ slept = 2 * retry_delay

C9_ExistsMeansComplete ==
    \A n \in skipped :
        (ListBlobNames(container, BlobPrefix(n, BASE_BLOB_NAME)) \cap OwnBlobs(n) # {})
        => OwnBlobs(n) \subseteq container

\* C10: a pipeline whose upload raised after j < K files has returned -1, its
\* j blobs are in the container, the summary of a run that reaches it marks
\* the file as failed; afterwards the pipeline writes nothing and no blob of
\* the container is ever removed.
C10_State ==
    \A i \in DOMAIN tpc :
        failed[i] = "upload"
        => /\ tpc[i] = "done"
           /\ ret[i] = -1
           /\ n_blobs_uploaded[i] < Cardinality(Members(download_tasks[i]))
           /\ Cardinality(uploaded[i]) = n_blobs_uploaded[i]
           /\ uploaded[i] \subseteq container
           /\ mpc = "done" =>
                 summary[i] = <<download_tasks[i], -1, "error">>

C10_Step ==
    /\ container \subseteq container'
    /\ \A i \in DOMAIN tpc :
          (failed[i] = "upload" /\ run' = run) => uploaded'[i] = uploaded[i]

C11_ScratchRemoved ==
    \A i \in DOMAIN tpc :
        /\ tpc[i] = "done" => (tmpdir[i] = "removed" /\ scratch[i] = {})
        /\ tmpdir[i] = "exists" => tpc[i] \in {"extract", "upload"}
        /\ scratch[i] # {} => tmpdir[i] = "exists"

C11_Witness ==
    \E i, j, k \in DOMAIN tpc :
        /\ tpc[i] = "done" /\ failed[i] = "none" /\ ret[i] >= 1
        /\ tpc[j] = "done" /\ failed[j] = "extract" /\ dl[j] = "None"
        /\ tpc[k] = "done" /\ failed[k] = "upload"
        /\ tmpdir[i] = "removed" /\ tmpdir[j] = "removed" /\ tmpdir[k] = "removed"

\* C12 as stated, its half about failures: after extract_file has raised the
\* archive is still on disk, and after a pipeline whose extraction or upload
\* raised has returned, the archive it downloaded is still on disk.
C12_ArchiveKeptOnFailure ==
    /\ epc = "raised" => afile
    /\ \A i \in DOMAIN tpc :
          ( /\ tpc[i] = "done"
            /\ failed[i] \in {"extract", "upload"}
            /\ archive[i] # "none" )
          => download_tasks[i] \in scratch[i]

\* C12 amended: extract_file leaves the archive on disk when its extraction
\* raises and deletes it only after it has extracted it or has found the
\* folder it tests for; the pipeline has the archive on disk only until its
\* extraction is over, deletes it right after a successful extraction, and
\* keeps nothing of it once it has returned, failure included.
C12_ArchiveDeletion ==
    /\ epc = "raised" => afile
    /\ ~afile => /\ epc = "returned"
                 /\ \/ ProducedDir(file_path) \in dnew
                    \/ PathExists(ExtractedFolderName(file_path), ddirs \ dnew)
    /\ \A i \in DOMAIN tpc :
          /\ download_tasks[i] \in scratch[i] => tpc[i] = "extract"
          /\ tpc[i] = "upload" => (failed[i] = "none" /\ scratch[i] # {}
                                     => download_tasks[i] \notin scratch[i])
          /\ tpc[i] = "done" => scratch[i] = {}

C12_Witness ==
    /\ epc = "raised"
    /\ afile
    /\ \E i \in DOMAIN tpc :
          /\ tpc[i] = "done"
          /\ failed[i] = "extract"
          /\ archive[i] = "complete"
          /\ tmpdir[i] = "removed"

\* C13: for a name ending in '.tar.gz', extract_file extracts exactly when
\* the directory named like the archive without '.tar.gz' does not exist.
C13_SkipsIffProducedDirExists ==
    EndsWith(file_path, TarGz)
    => /\ epc = "extract" => ProducedDir(file_path) \notin ddirs
       /\ (epc = "remove" /\ ProducedDir(file_path) \notin dnew)
             => ProducedDir(file_path) \in ddirs

\* number of pipelines of task i that have ended
Ends(i) == Cardinality({ k \in DOMAIN finish_order : finish_order[k] = i })

\* tasks whose download_to_blob is executing in a worker process
Executing == { i \in DOMAIN tpc : tpc[i] \in {"setup", "download", "extract", "upload"} }

C15_DisjointBlobNames ==
    \A i, j \in DOMAIN attempted :
        (i # j /\ download_tasks[i] # download_tasks[j])
        => attempted[i] \cap attempted[j] = {}

\* C16: a pipeline whose download_file gave up and returned None returns -1
\* and has uploaded no blob, whatever the failed attempts left of the archive.
C16_ExhaustedDownloadUploadsNothing ==
    \A i \in DOMAIN tpc :
        (tpc[i] = "done" /\ dl[i] = "None")
        => (ret[i] = -1 /\ uploaded[i] = {})

\* C17: whatever the order in which the pipelines ended, the summary holds one
\* line per pending file, and the line of a file reports the value its own
\* pipeline returned, at the level that value calls for.
C17_SummaryMatchesOwnResult ==
    mpc = "done"
    => /\ Len(summary) = Len(download_tasks)
       /\ \A i \in Tasks :
             summary[i] = <<download_tasks[i], ret[i], SummaryLevel(ret[i])>>

C17_Witness ==
    /\ mpc = "done"
    /\ \E i, j \in Tasks :
          /\ i < j
          /\ ret[i] # ret[j]
          /\ \E k, l \in DOMAIN finish_order :
                k < l /\ finish_order[k] = j /\ finish_order[l] = i
          /\ summary[i][2] = ret[i]
          /\ summary[j][2] = ret[j]

\* C18: an entry is reported as existing and skipped only when the listing
\* returned a blob under its prefix; when the listing fails the exception ends
\* main at that entry, which is neither skipped nor queued.
C18_ListingFailurePropagates ==
    /\ \A n \in skipped : n \in present
    /\ abort = "listing"
          => /\ mpc = "aborted"
             /\ idx <= Len(article)
             /\ article[idx] \notin skipped
             /\ \A i \in DOMAIN download_tasks : download_tasks[i] # article[idx]

C18_Witness ==
    /\ abort = "listing"
    /\ idx <= Len(article)
    /\ blob_exists(article[idx], container, BASE_BLOB_NAME)
    /\ article[idx] \notin skipped

\* C19: once the pipeline of an entry has returned a count of at least 1,
\* blob_exists is true for that entry, whatever its archive's members are
\* called, so that a later run skips it.
C19_UploadedMeansExists ==
    \A i \in DOMAIN tpc :
        (tpc[i] = "done" /\ failed[i] = "none" /\ ret[i] >= 1)
        => blob_exists(download_tasks[i], container, BASE_BLOB_NAME)

\* C20: an entry is skipped only on a blob of its own archive: among the
\* blobs the listing for a skipped entry returns there is one that the
\* entry's archive extracts to.
C20_SkippedOnOwnBlobsOnly ==
    \A n \in skipped :
        \E b \in ListBlobNames(container, BlobPrefix(n, BASE_BLOB_NAME)) :
            b \in OwnBlobs(n)

====
